---- MODULE Spec2Model ----
(***************************************************************************)
(* A model of qlib's data-loading layer (qlib/data/dataset/loader.py) and  *)
(* of the online user manager (qlib/contrib/online/manager.py).            *)
(*                                                                         *)
(* Tables are sequences of rows; a row index is <<datetime, instrument>>.  *)
(* An optional argument (Python None) is a sequence of length 0 or 1.      *)
(***************************************************************************)
EXTENDS Integers, Sequences, FiniteSets

\* ---------------------------------------------------------------- bounds
MaxTime == 2
MaxCalls == 2

\* ---------------------------------------------------------------- state
\* StaticDataLoader
VARIABLES
    config,      \* StaticDataLoader.config: group -> path
    join,        \* StaticDataLoader.join
    __dict__,    \* per object: the attribute names its instance dict holds
    _data,       \* per object: StaticDataLoader._data (None or the table)
    reads,       \* per object and group: calls of load_dataset
    ncalls,      \* per object: load calls made
    state,       \* the pickled state (None until __getstate__ ran)
    ret          \* per object: outcome of the last load call

sdlVars == <<config, join, __dict__, _data, reads, ncalls, state, ret>>

\* StaticDataLoader.load called from two threads
VARIABLES
    pc,        \* per thread: the statement it is at
    targs,     \* per thread: the arguments of its load call
    tmp,       \* per thread: the table pd.concat returned, not yet assigned
    tret,      \* per thread: what its load call returned
    overlap    \* some thread found _data unset while another was materializing

raceVars == <<pc, targs, tmp, tret, overlap>>

\* QlibDataLoader
VARIABLES
    given,         \* the arguments of the constructor call
    raised,        \* the exception the constructor raised (NoExc: none)
    loader,        \* the constructed QlibDataLoader's attributes
    group_calls,   \* load_group_df invocations of the last load call
    engine_calls,  \* D.features requests of the last load call
    warns,         \* warnings of the last load call
    qret           \* outcome of the last load call

qdlVars == <<given, raised, loader, group_calls, engine_calls, warns, qret>>

\* DataLoaderDH
VARIABLES
    handlers,      \* DataLoaderDH.handlers: key -> the rows the handler holds
    is_group,      \* DataLoaderDH.is_group
    fetch_kwargs,  \* DataLoaderDH.fetch_kwargs
    last,          \* the last load call: arguments, requests, diagnostics, result
    prev           \* the load call before it

dhVars == <<handlers, is_group, fetch_kwargs, last, prev>>

\* UserManager
VARIABLES
    dirs,          \* the user ids that have a directory under data_path
    user_record,   \* users.csv: user_id -> add_date
    um_last,       \* the last call: operation, user id and the exception raised
    aborted        \* a call raised between its directory write and its manifest write

umVars == <<dirs, user_record, um_last, aborted>>

vars == <<sdlVars, raceVars, qdlVars, dhVars, umVars>>

\* ------------------------------------------------------------- universe
Times == 1..MaxTime
Insts == {1, 2}
Index == Times \X Insts
GroupOrder == <<"feature", "label">>
Groups == {GroupOrder[k] : k \in 1..Len(GroupOrder)}
None == <<>>
Some(x) == <<x>>
Range(s) == {s[k] : k \in 1..Len(s)}

\* Lexicographic order of a two-level index.
Less(a, b) == a[1] < b[1] \/ (a[1] = b[1] /\ a[2] < b[2])

MinIdx(S) == CHOOSE m \in S : \A x \in S : x = m \/ Less(m, x)

RECURSIVE SortedSeq(_)
SortedSeq(S) == IF S = {} THEN <<>> ELSE <<MinIdx(S)>> \o SortedSeq(S \ {MinIdx(S)})

Reverse(s) == [k \in 1..Len(s) |-> s[Len(s) + 1 - k]]

\* ------------------------------------------------------ dataset reader
\* The stored datasets a config may point at: a path names the rows a file
\* holds and the order the file keeps them in.
RowSets ==
    {{r \in Index : r[1] <= k} : k \in 0..MaxTime}
        \cup {{r \in Index : r[2] = i} : i \in Insts}

Paths ==
    {<<rows, IF \E r \in rows : r[1] = MaxTime THEN "desc" ELSE "asc">> : rows \in RowSets}

\* The datasets tried for the second group: empty, or one instrument's rows.
LabelPaths == {p \in Paths : \A r \in p[1] : r[2] = 1} \cup {p \in Paths : \A r \in p[1] : r[2] = 2}

\* qlib.utils.load_dataset as StaticDataLoader uses it: path -> table index.
load_dataset(path_or_obj) ==
    IF path_or_obj[2] = "asc"
    THEN SortedSeq(path_or_obj[1])
    ELSE Reverse(SortedSeq(path_or_obj[1]))


Objs == {"orig", "restored"}
AttrNames == {"config", "join", "_data"}
StartsWithUnderscore(k) == k = "_data"

NoRet == [kind |-> "none", df |-> <<>>, instruments |-> None,
          start_time |-> None, end_time |-> None]

\* ------------------------------------------------- StaticDataLoader
\* pd.concat({group: frame}, axis=1, join=...): the row index of the result
\* (union in first-seen order, or the intersection) and, per row, the groups
\* that hold values there (the other blocks are NaN).
RECURSIVE UnionIdx(_, _)
UnionIdx(idxs, k) ==
    IF k = 0 THEN <<>>
    ELSE LET seen == UnionIdx(idxs, k - 1)
         IN seen \o SelectSeq(idxs[k], LAMBDA r : r \notin Range(seen))

InterIdx(idxs) ==
    SelectSeq(idxs[1], LAMBDA r : \A k \in 1..Len(idxs) : r \in Range(idxs[k]))

concat(frames, how) ==
    LET idxs == [k \in 1..Len(GroupOrder) |-> frames[GroupOrder[k]]]
        idx == IF how = "outer" THEN UnionIdx(idxs, Len(idxs)) ELSE InterIdx(idxs)
    IN [k \in 1..Len(idx) |->
          [idx |-> idx[k], cols |-> {g \in Groups : idx[k] \in Range(frames[g])}]]

\* DataFrame.sort_index: rows in lexicographic order of the index.
sort_index(df) ==
    LET sorted == SortedSeq({df[k].idx : k \in 1..Len(df)})
    IN [k \in 1..Len(df) |-> CHOOSE row \in Range(df) : row.idx = sorted[k]]

\* StaticDataLoader.__init__
StaticInit ==
    /\ config \in {c \in [Groups -> Paths] : c[GroupOrder[2]] \in LabelPaths}
    /\ join \in {"outer", "inner"}
    /\ __dict__ = [o \in Objs |-> IF o = "orig" THEN AttrNames ELSE {}]
    /\ _data = [o \in Objs |-> None]
    /\ reads = [o \in Objs |-> [g \in Groups |-> 0]]
    /\ ncalls = [o \in Objs |-> 0]
    /\ state = None
    /\ ret = [o \in Objs |-> NoRet]

\* A variant that skips the test of self._data and reloads on every call.
reload_raw_data(o) ==
    /\ _data' = [_data EXCEPT ![o] =
           Some(sort_index(concat([g \in Groups |-> load_dataset(config[g])], join)))]
    /\ reads' = [reads EXCEPT ![o] = [g \in Groups |-> @[g] + 1]]

\* StaticDataLoader._maybe_load_raw_data
_maybe_load_raw_data(o) ==
    IF _data[o] # None
    THEN UNCHANGED <<_data, reads>>
    ELSE /\ _data' = [_data EXCEPT ![o] =
                Some(sort_index(concat([g \in Groups |-> load_dataset(config[g])], join)))]
         /\ reads' = [reads EXCEPT ![o] = [g \in Groups |-> @[g] + 1]]

\* utils.time_to_slc_point: None stays None, anything else becomes a timestamp.
time_to_slc_point(t) == IF t = None THEN None ELSE Some(t[1])

\* A variant slicing like a Python range: the end bound is left out.
loc_slice_half_open(df, start, end) ==
    SelectSeq(df, LAMBDA row : /\ (start = None \/ row.idx[1] >= start[1])
                               /\ (end = None \/ row.idx[1] < end[1]))

\* df.loc[start:end] on the first index level: label slicing takes the
\* positions from the first row not before start to the last row not after end.
loc_slice(df, start, end) ==
    LET from == {k \in 1..Len(df) : start = None \/ df[k].idx[1] >= start[1]}
        upto == {k \in 1..Len(df) : end = None \/ df[k].idx[1] <= end[1]}
        lo == IF from = {} THEN Len(df) + 1 ELSE CHOOSE k \in from : \A j \in from : k <= j
        hi == IF upto = {} THEN 0 ELSE CHOOSE k \in upto : \A j \in upto : k >= j
    IN SubSeq(df, lo, hi)

\* The table a load call returns from the cached table.
view(data, instruments, start_time, end_time) ==
    LET df == IF instruments = None
              THEN data
              ELSE SelectSeq(data, LAMBDA row : row.idx[2] \in instruments[1])
    IN IF start_time = None /\ end_time = None
       THEN df
       ELSE loc_slice(df, time_to_slc_point(start_time), time_to_slc_point(end_time))

\* StaticDataLoader.load
StaticLoad(o, instruments, start_time, end_time) ==
    /\ __dict__[o] # {}
    /\ ncalls[o] < MaxCalls
    /\ ncalls' = [ncalls EXCEPT ![o] = @ + 1]
    /\ IF "_data" \notin __dict__[o]
       THEN /\ ret' = [ret EXCEPT ![o] = [NoRet EXCEPT !.kind = "AttributeError"]]
            /\ UNCHANGED <<_data, reads>>
       ELSE /\ _maybe_load_raw_data(o)
            /\ ret' = [ret EXCEPT ![o] =
                    [kind |-> "ok",
                     df |-> view(_data'[o][1], instruments, start_time, end_time),
                     instruments |-> instruments,
                     start_time |-> start_time,
                     end_time |-> end_time]]
    /\ UNCHANGED <<config, join, __dict__, state>>
    /\ UNCHANGED <<raceVars, qdlVars, dhVars, umVars>>

\* StaticDataLoader.__getstate__ (pickling the original instance)
__getstate__ ==
    /\ state' = Some([keys |-> {k \in __dict__["orig"] : ~StartsWithUnderscore(k)},
                      _data |-> IF \E k \in __dict__["orig"] :
                                      k = "_data" /\ ~StartsWithUnderscore(k)
                                THEN _data["orig"] ELSE None])
    /\ UNCHANGED <<config, join, __dict__, _data, reads, ncalls, ret>>
    /\ UNCHANGED <<raceVars, qdlVars, dhVars, umVars>>

\* Unpickling: object.__new__ and __dict__.update(state); __init__ does not run.
Restore ==
    /\ state # None
    /\ __dict__["restored"] = {}
    /\ __dict__' = [__dict__ EXCEPT !["restored"] = state[1].keys]
    /\ _data' = [_data EXCEPT !["restored"] = state[1]._data]
    /\ UNCHANGED <<config, join, reads, ncalls, state, ret>>
    /\ UNCHANGED <<raceVars, qdlVars, dhVars, umVars>>

OptTimes == {None} \cup {Some(t) : t \in Times}
OptInsts == {None, Some({1}), Some(Insts)}

StaticNext ==
    \/ \E o \in Objs, i \in OptInsts, s \in OptTimes, e \in OptTimes : StaticLoad(o, i, s, e)
    \/ __getstate__
    \/ Restore

\* ------------------------------------------------ DLWParser / QlibDataLoader
MaxFields == 2

ExprNames == <<"$close", "$volume">>
ColNames == <<"n1", "n2", "n3", "n4">>

\* Python values a fields_info may hold: a str, a list of str, or an int.
StrE(s) == [tag |-> "str", s |-> s, l |-> <<>>]
ListE(l) == [tag |-> "list", s |-> "", l |-> l]
IntE == [tag |-> "int", s |-> "", l |-> <<>>]
FI(type, elems) == [type |-> type, elems |-> elems]

Repeat(x, n) == [k \in 1..n |-> x]

\* The fields_info values constructions are tried with.
StrLists ==
    {FI("list", [k \in 1..n |-> StrE(ExprNames[1])]) : n \in 0..MaxFields}
        \cup {FI("list", [k \in 1..n |-> StrE(ExprNames[k])]) : n \in 1..Len(ExprNames)}
PairForms ==
    {FI("tuple", <<ListE(Repeat(ExprNames[1], n)), ListE(SubSeq(ColNames, 1, m))>>) :
        n \in 0..MaxFields, m \in 0..MaxFields}
OddForms ==
    {FI("tuple", <<ListE(<<ExprNames[1]>>)>>), FI("list", <<IntE>>), FI("str", <<StrE("$")>>)}
FieldsInfos == StrLists \cup PairForms \cup OddForms
FirstGroupInfos ==
    {FI("list", <<StrE(ExprNames[1])>>), FI("list", <<>>),
     FI("tuple", <<ListE(<<>>), ListE(<<>>)>>),
     FI("tuple", <<ListE(<<ExprNames[1]>>), ListE(<<ColNames[1]>>)>>),
     FI("tuple", <<ListE(<<ExprNames[1]>>), ListE(<<ColNames[1], ColNames[2]>>)>>)}
SecondGroupInfos ==
    {FI("list", <<StrE(ExprNames[2])>>), FI("list", <<>>),
     FI("tuple", <<ListE(<<ExprNames[2]>>), ListE(<<>>)>>)}

FlatConfig(fi) == [kind |-> "flat", flat |-> fi, map |-> <<>>]
DictConfig(m) == [kind |-> "dict", flat |-> FI("list", <<>>), map |-> m]
Configs ==
    {FlatConfig(fi) : fi \in FieldsInfos}
        \cup {DictConfig([g \in {GroupOrder[1]} |-> fi]) : fi \in FieldsInfos}
        \cup {DictConfig([g \in Groups |-> IF g = GroupOrder[1] THEN fi ELSE fj]) :
                 fi \in FirstGroupInfos, fj \in SecondGroupInfos}

FreqToken(g) == IF g = GroupOrder[1] THEN "day" ELSE "week"
StrFreq(tok) == [kind |-> "str", token |-> tok, map |-> <<>>]
DictFreq(G) == [kind |-> "dict", token |-> "", map |-> [g \in G |-> FreqToken(g)]]
Freqs == {StrFreq("day")} \cup {DictFreq(G) : G \in {{GroupOrder[1]}, Groups}}

NoProc == [kind |-> "none", map |-> <<>>]
DictProc(G) == [kind |-> "dict", map |-> [g \in G |-> <<"proc">>]]
InstProcessors == {NoProc} \cup {DictProc(G) : G \in {{}, {GroupOrder[1]}, Groups}}

\* <<filter_pipe, swap_level>>
CtorOptions == {<<None, TRUE>>, <<None, FALSE>>, <<Some(<<"filter">>), TRUE>>}

Raise(exc, msg) == [exc |-> exc, msg |-> msg]
NoExc == Raise("", "")

\* DLWParser._parse_fields_info
_parse_fields_info(fields_info) ==
    IF Len(fields_info.elems) = 0
    THEN [exc |-> Raise("ValueError", "The size of fields must be greater than 0"),
          exprs |-> <<>>, names |-> <<>>]
    ELSE IF fields_info.type \notin {"list", "tuple"}
    THEN [exc |-> Raise("TypeError", "Unsupported type"), exprs |-> <<>>, names |-> <<>>]
    ELSE IF fields_info.elems[1].tag = "str"
    THEN [exc |-> NoExc,
          exprs |-> [k \in 1..Len(fields_info.elems) |-> fields_info.elems[k].s],
          names |-> [k \in 1..Len(fields_info.elems) |-> fields_info.elems[k].s]]
    ELSE IF fields_info.elems[1].tag = "list"
    THEN IF Len(fields_info.elems) = 2
         THEN [exc |-> NoExc, exprs |-> fields_info.elems[1].l, names |-> fields_info.elems[2].l]
         ELSE [exc |-> Raise("ValueError", "unpack"), exprs |-> <<>>, names |-> <<>>]
    ELSE [exc |-> Raise("NotImplementedError", "This type of input is not supported"),
          exprs |-> <<>>, names |-> <<>>]

\* dict iteration order of the groups of a mapping
KeysInOrder(m) == SelectSeq(GroupOrder, LAMBDA g : g \in DOMAIN m)

\* DLWParser.__init__: the first exception parsing raises, in dict order.
DLWParser__init__(cfg) ==
    IF cfg.kind = "dict"
    THEN LET keys == KeysInOrder(cfg.map)
             bad == {k \in 1..Len(keys) : _parse_fields_info(cfg.map[keys[k]]).exc # NoExc}
         IN [exc |-> IF bad = {} THEN NoExc
                     ELSE _parse_fields_info(
                              cfg.map[keys[CHOOSE k \in bad : \A j \in bad : k <= j]]).exc,
             is_group |-> TRUE,
             fields |-> [g \in DOMAIN cfg.map |->
                            [exprs |-> _parse_fields_info(cfg.map[g]).exprs,
                             names |-> _parse_fields_info(cfg.map[g]).names]]]
    ELSE [exc |-> _parse_fields_info(cfg.flat).exc,
          is_group |-> FALSE,
          fields |-> [g \in {"_"} |->
                         [exprs |-> _parse_fields_info(cfg.flat).exprs,
                          names |-> _parse_fields_info(cfg.flat).names]]]

\* A variant that leaves the coverage of freq to the load call.
freq_unchecked(cfg, fq) == {}

\* QlibDataLoader.__init__, the loop over config.keys(): the groups freq lacks.
freq_missing(cfg, fq) == {g \in DOMAIN cfg.map : g \notin DOMAIN fq.map}

\* A variant without the assertion.
inst_processor_unasserted(inst_processor) == TRUE

\* QlibDataLoader.__init__, the assertion on self.inst_processor.
inst_processor_ok(inst_processor) == DOMAIN inst_processor # {}

\* QlibDataLoader.__init__: the exception it raises (NoExc when it returns).
QlibDataLoader__init__(cfg, fq, procs) ==
    LET self_inst_processor == IF procs.kind = "none" THEN <<>> ELSE procs.map
        parsed == DLWParser__init__(cfg)
    IN IF parsed.exc # NoExc THEN parsed.exc
       ELSE IF parsed.is_group /\ fq.kind = "dict"
       THEN IF freq_missing(cfg, fq) # {} THEN Raise("ValueError", "freq missing group")
            ELSE IF ~inst_processor_ok(self_inst_processor)
            THEN Raise("AssertionError", "inst_processor cannot be None/empty")
            ELSE NoExc
       ELSE NoExc


NoLoader == [exists |-> FALSE, is_group |-> FALSE, fields |-> <<>>, filter_pipe |-> None,
             swap_level |-> FALSE, freq |-> StrFreq("day"), inst_processor |-> <<>>]
NoGiven == [config |-> FlatConfig(FI("list", <<>>)), filter_pipe |-> None,
            swap_level |-> FALSE, freq |-> StrFreq("day"), inst_processor |-> NoProc,
            called |-> FALSE]
NoDf == [index |-> <<>>, columns |-> <<>>]
InstNone == [kind |-> "none", market |-> "", list |-> {}, filter_pipe |-> None]
NoQRet == [kind |-> "none", exc |-> NoExc, labelled |-> FALSE, outer |-> {},
           index |-> {}, blocks |-> <<>>, df |-> NoDf,
           instruments |-> InstNone, start_time |-> None, end_time |-> None]

QdlInit ==
    /\ given = NoGiven
    /\ raised = NoExc
    /\ loader = NoLoader
    /\ group_calls = <<>>
    /\ engine_calls = <<>>
    /\ warns = <<>>
    /\ qret = NoQRet

\* loader = QlibDataLoader(config, filter_pipe, swap_level, freq, inst_processor)
Construct(cfg, fp, swap, fq, procs) ==
    /\ ~given.called
    /\ given' = [config |-> cfg, filter_pipe |-> fp, swap_level |-> swap, freq |-> fq,
                 inst_processor |-> procs, called |-> TRUE]
    /\ raised' = QlibDataLoader__init__(cfg, fq, procs)
    /\ loader' = IF raised' = NoExc
                 THEN [exists |-> TRUE,
                       is_group |-> DLWParser__init__(cfg).is_group,
                       fields |-> DLWParser__init__(cfg).fields,
                       filter_pipe |-> fp,
                       swap_level |-> swap,
                       freq |-> fq,
                       inst_processor |-> IF procs.kind = "none" THEN <<>> ELSE procs.map]
                 ELSE NoLoader
    /\ UNCHANGED <<group_calls, engine_calls, warns, qret>>
    /\ UNCHANGED <<sdlVars, raceVars, dhVars, umVars>>
\* The instruments argument of a load call: None, a market name or a list.
InstMarket(m) == [kind |-> "market", market |-> m, list |-> {}, filter_pipe |-> None]
InstList(S) == [kind |-> "list", market |-> "", list |-> S, filter_pipe |-> None]
InstArgs == {InstNone, InstMarket("all"), InstList({1})}
\* <<start_time, end_time>> of the load calls on the expression and handler loaders
TimeRanges == {<<None, None>>, <<Some(1), Some(1)>>, <<Some(2), None>>, <<None, Some(MaxTime)>>}

\* D.instruments(market, filter_pipe): the instrument config the engine resolves.
D_instruments(market, filter_pipe) ==
    [kind |-> "config", market |-> market, list |-> {}, filter_pipe |-> filter_pipe]

\* The trading calendar of a frequency, and the universe a config resolves to.
Calendar(freq) == IF freq = "day" THEN Times ELSE {t \in Times : t % 2 = 1}
Universe(instruments) ==
    IF instruments.kind = "list" THEN instruments.list
    ELSE IF instruments.filter_pipe = None THEN Insts
    ELSE {i \in Insts : i = 1}

\* D.features(...): one column per expression, rows <<instrument, datetime>>
\* in instrument-major order.
D_features(instruments, exprs, start_time, end_time, freq) ==
    [index |-> SortedSeq({r \in Universe(instruments) \X Calendar(freq) :
                            /\ (start_time = None \/ r[2] >= start_time[1])
                            /\ (end_time = None \/ r[2] <= end_time[1])}),
     columns |-> exprs]

\* df.swaplevel().sort_index()
swaplevel_sort(df) ==
    [index |-> SortedSeq({<<df.index[k][2], df.index[k][1]>> : k \in 1..Len(df.index)}),
     columns |-> df.columns]

\* self.inst_processor.get(gp_name, [])
inst_processor_get(gp_name) ==
    IF gp_name # None /\ gp_name[1] \in DOMAIN loader.inst_processor
    THEN loader.inst_processor[gp_name[1]]
    ELSE <<>>

\* A variant that renames without comparing the lengths.
set_columns_unchecked(df, names) == FALSE

\* `df.columns = names`: pandas refuses a list of another length.
set_columns_fails(df, names) == Len(names) # Len(df.columns)

\* QlibDataLoader.load_group_df
load_group_df(instruments, exprs, names, start_time, end_time, gp_name) ==
    LET warn1 == IF instruments.kind = "none"
                 THEN <<"instruments is not set, will load all stocks">> ELSE <<>>
        inst1 == IF instruments.kind = "none" THEN InstMarket("all") ELSE instruments
        inst2 == IF inst1.kind = "market"
                 THEN D_instruments(inst1.market, loader.filter_pipe) ELSE inst1
        warn2 == IF inst1.kind # "market" /\ loader.filter_pipe # None
                 THEN <<"filter_pipe is not None, but it will not be used">> ELSE <<>>
        keyerr == loader.freq.kind = "dict"
                    /\ (gp_name = None \/ gp_name[1] \notin DOMAIN loader.freq.map)
        freq == IF loader.freq.kind = "dict" THEN loader.freq.map[gp_name[1]]
                ELSE loader.freq.token
        request == [instruments |-> inst2, exprs |-> exprs, start_time |-> start_time,
                    end_time |-> end_time, freq |-> freq,
                    inst_processors |-> inst_processor_get(gp_name)]
        df == D_features(inst2, exprs, start_time, end_time, freq)
        renamed == [index |-> df.index, columns |-> names]
    IN IF keyerr
       THEN [exc |-> Raise("KeyError", "freq"), warns |-> warn1 \o warn2,
             ecalls |-> <<>>, df |-> NoDf]
       ELSE IF set_columns_fails(df, names)
       THEN [exc |-> Raise("ValueError", "Length mismatch"), warns |-> warn1 \o warn2,
             ecalls |-> <<request>>, df |-> NoDf]
       ELSE [exc |-> NoExc, warns |-> warn1 \o warn2, ecalls |-> <<request>>,
             df |-> IF loader.swap_level THEN swaplevel_sort(renamed) ELSE renamed]

GroupCall(instruments, exprs, names, start_time, end_time, gp_name) ==
    [instruments |-> instruments, exprs |-> exprs, names |-> names,
     start_time |-> start_time, end_time |-> end_time, gp_name |-> gp_name]

\* DLWParser.load, the dict comprehension: the groups in dict order, stopping
\* at the first one that raises.
RECURSIVE load_groups(_, _, _, _)
load_groups(keys, instruments, start_time, end_time) ==
    IF keys = <<>>
    THEN [exc |-> NoExc, calls |-> <<>>, ecalls |-> <<>>, warns |-> <<>>, dfs |-> <<>>]
    ELSE LET grp == Head(keys)
             exprs == loader.fields[grp].exprs
             names == loader.fields[grp].names
             r == load_group_df(instruments, exprs, names, start_time, end_time, Some(grp))
             call == GroupCall(instruments, exprs, names, start_time, end_time, Some(grp))
             rest == load_groups(Tail(keys), instruments, start_time, end_time)
         IN IF r.exc # NoExc
            THEN [exc |-> r.exc, calls |-> <<call>>, ecalls |-> r.ecalls,
                  warns |-> r.warns, dfs |-> <<>>]
            ELSE [exc |-> rest.exc, calls |-> <<call>> \o rest.calls,
                  ecalls |-> r.ecalls \o rest.ecalls, warns |-> r.warns \o rest.warns,
                  dfs |-> <<r.df>> \o rest.dfs]

\* A variant joining the blocks on the rows they share (join="inner").
concat_index_inner(dfs) == Range(InterIdx([k \in 1..Len(dfs) |-> dfs[k].index]))

\* pd.concat({grp: df}, axis=1): the row index of the result (outer join).
concat_index(dfs) == Range(UnionIdx([k \in 1..Len(dfs) |-> dfs[k].index], Len(dfs)))

Called(instruments, start_time, end_time) ==
    [NoQRet EXCEPT !.instruments = instruments, !.start_time = start_time,
                   !.end_time = end_time]

\* DLWParser.load
DLWLoad(instruments, start_time, end_time) ==
    /\ loader.exists
    /\ IF loader.is_group
       THEN \E keys \in {KeysInOrder(loader.fields)} :
            \E r \in {load_groups(keys, instruments, start_time, end_time)} :
               /\ group_calls' = r.calls
               /\ engine_calls' = r.ecalls
               /\ warns' = r.warns
               /\ qret' = IF r.exc # NoExc
                          THEN [Called(instruments, start_time, end_time)
                                   EXCEPT !.kind = "raised", !.exc = r.exc]
                          ELSE [Called(instruments, start_time, end_time)
                                   EXCEPT !.kind = "ok", !.labelled = TRUE,
                                              !.outer = Range(keys),
                                              !.index = concat_index(r.dfs),
                                              !.blocks = [k \in 1..Len(keys) |->
                                                            [grp |-> keys[k], df |-> r.dfs[k]]]]
       ELSE \E exprs \in {loader.fields["_"].exprs}, names \in {loader.fields["_"].names} :
            \E r \in {load_group_df(instruments, exprs, names, start_time, end_time, None)} :
               /\ group_calls' = <<GroupCall(instruments, exprs, names, start_time, end_time, None)>>
               /\ engine_calls' = r.ecalls
               /\ warns' = r.warns
               /\ qret' = IF r.exc # NoExc
                          THEN [Called(instruments, start_time, end_time)
                                   EXCEPT !.kind = "raised", !.exc = r.exc]
                          ELSE [Called(instruments, start_time, end_time)
                                   EXCEPT !.kind = "ok", !.index = Range(r.df.index),
                                          !.df = r.df]
    /\ UNCHANGED <<given, raised, loader>>
    /\ UNCHANGED <<sdlVars, raceVars, dhVars, umVars>>

QdlNext ==
    \/ /\ ~given.called
       /\ \E cfg \in Configs, opts \in CtorOptions, fq \in Freqs, procs \in InstProcessors :
             Construct(cfg, opts[1], opts[2], fq, procs)
    \/ /\ loader.exists
       /\ \E i \in InstArgs, range \in TimeRanges : DLWLoad(i, range[1], range[2])
\* ------------------------------------------------------------ DataLoaderDH

CS_RAW == "__raw"
ColSets == {CS_RAW, "feature"}

NoCall == [called |-> FALSE, instruments |-> InstNone, start_time |-> None,
           end_time |-> None, requests |-> <<>>, warnings |-> <<>>, ret |-> <<>>]

\* DataHandler.fetch(selector=slice(start, stop), level="datetime", col_set=...):
\* the handler's own rows inside the inclusive time range.
DataHandler_fetch(rows, request) ==
    [index |-> SortedSeq({r \in rows :
                            /\ (request.selector[1] = None \/ r[1] >= request.selector[1][1])
                            /\ (request.selector[2] = None \/ r[1] <= request.selector[2][1])}),
     col_set |-> request.col_set]

\* DataLoaderDH.__init__
DhInit ==
    /\ is_group \in BOOLEAN
    /\ handlers \in IF is_group THEN [Groups -> RowSets] ELSE [{"_"} -> RowSets]
    /\ \E given_kwargs \in {<<>>} \cup {[k \in {"col_set"} |-> c] : c \in ColSets} :
          fetch_kwargs = [k \in {"col_set"} \cup DOMAIN given_kwargs |->
                             IF k \in DOMAIN given_kwargs THEN given_kwargs[k] ELSE CS_RAW]
    /\ last = NoCall
    /\ prev = NoCall

\* A variant that lets the instruments argument reach the handler.
fetch_request_by_instruments(instruments, start_time, end_time) ==
    [selector |-> <<start_time, end_time>>,
     level |-> IF instruments.kind = "list" THEN "instrument" ELSE "datetime",
     col_set |-> fetch_kwargs["col_set"]]

\* The keyword arguments of one dh.fetch call of DataLoaderDH.load.
fetch_request(instruments, start_time, end_time) ==
    [selector |-> <<start_time, end_time>>, level |-> "datetime",
     col_set |-> fetch_kwargs["col_set"]]

\* DataLoaderDH.load
DhLoad(instruments, start_time, end_time) ==
    LET warnings == IF instruments.kind # "none" THEN <<"instruments is ignored">> ELSE <<>>
        requests == [h \in DOMAIN handlers |-> fetch_request(instruments, start_time, end_time)]
        fetched == [h \in DOMAIN handlers |-> DataHandler_fetch(handlers[h], requests[h])]
    IN /\ prev' = last
       /\ last' = [called |-> TRUE, instruments |-> instruments, start_time |-> start_time,
                   end_time |-> end_time, requests |-> requests, warnings |-> warnings,
                   ret |-> IF is_group
                           THEN [labelled |-> TRUE, blocks |-> fetched]
                           ELSE [labelled |-> FALSE, blocks |-> fetched]]
       /\ UNCHANGED <<handlers, is_group, fetch_kwargs>>
       /\ UNCHANGED <<sdlVars, raceVars, qdlVars, umVars>>

DhNext == \E i \in InstArgs, range \in TimeRanges : DhLoad(i, range[1], range[2])
\* ------------------------------- StaticDataLoader.load from two threads
\* One load call per thread on the same instance, a step per statement; the
\* interpreter may switch threads between any two of them.

Threads == {1, 2}

RaceInit ==
    /\ pc = [t \in Threads |-> "idle"]
    /\ targs = [t \in Threads |-> None]
    /\ tmp = [t \in Threads |-> None]
    /\ tret = [t \in Threads |-> None]
    /\ overlap = FALSE

\* load(start_time=...) is entered
T_call(t, start_time) ==
    /\ pc[t] = "idle"
    /\ pc' = [pc EXCEPT ![t] = "check"]
    /\ targs' = [targs EXCEPT ![t] = start_time]
    /\ UNCHANGED <<tmp, tret, overlap>>
    /\ UNCHANGED <<sdlVars, qdlVars, dhVars, umVars>>

\* A variant whose test never finds the cache.
data_never_set(o) == FALSE

\* `if self._data is not None`
data_is_set(o) == _data[o] # None

\* _maybe_load_raw_data, the test of self._data
T_check(t) ==
    /\ pc[t] = "check"
    /\ pc' = [pc EXCEPT ![t] = IF data_is_set("orig") THEN "view" ELSE "concat"]
    /\ overlap' = (overlap \/ (~data_is_set("orig")
                                 /\ \E u \in Threads \ {t} : pc[u] \in {"concat", "assign"}))
    /\ UNCHANGED <<targs, tmp, tret>>
    /\ UNCHANGED <<sdlVars, qdlVars, dhVars, umVars>>

\* _maybe_load_raw_data, pd.concat({...: load_dataset(...)}) evaluated
T_concat(t) ==
    /\ pc[t] = "concat"
    /\ pc' = [pc EXCEPT ![t] = "assign"]
    /\ tmp' = [tmp EXCEPT ![t] = Some(concat([g \in Groups |-> load_dataset(config[g])], join))]
    /\ reads' = [reads EXCEPT !["orig"] = [g \in Groups |-> @[g] + 1]]
    /\ UNCHANGED <<targs, tret, overlap>>
    /\ UNCHANGED <<config, join, __dict__, _data, ncalls, state, ret>>
    /\ UNCHANGED <<qdlVars, dhVars, umVars>>

\* _maybe_load_raw_data, `self._data = ...`
T_assign(t) ==
    /\ pc[t] = "assign"
    /\ pc' = [pc EXCEPT ![t] = "sort"]
    /\ _data' = [_data EXCEPT !["orig"] = tmp[t]]
    /\ UNCHANGED <<targs, tmp, tret, overlap>>
    /\ UNCHANGED <<config, join, __dict__, reads, ncalls, state, ret>>
    /\ UNCHANGED <<qdlVars, dhVars, umVars>>

\* _maybe_load_raw_data, `self._data.sort_index(inplace=True)`
T_sort(t) ==
    /\ pc[t] = "sort"
    /\ pc' = [pc EXCEPT ![t] = "view"]
    /\ _data' = [_data EXCEPT !["orig"] = Some(sort_index(_data["orig"][1]))]
    /\ UNCHANGED <<targs, tmp, tret, overlap>>
    /\ UNCHANGED <<config, join, __dict__, reads, ncalls, state, ret>>
    /\ UNCHANGED <<qdlVars, dhVars, umVars>>

\* load, the slicing of self._data and the return
T_view(t) ==
    /\ pc[t] = "view"
    /\ pc' = [pc EXCEPT ![t] = "done"]
    /\ tret' = [tret EXCEPT ![t] = Some(view(_data["orig"][1], None, targs[t], None))]
    /\ ncalls' = [ncalls EXCEPT !["orig"] = @ + 1]
    /\ UNCHANGED <<targs, tmp, overlap>>
    /\ UNCHANGED <<config, join, __dict__, _data, reads, state, ret>>
    /\ UNCHANGED <<qdlVars, dhVars, umVars>>

RaceNext ==
    \/ \E t \in Threads, s \in OptTimes : T_call(t, s)
    \/ \E t \in Threads : T_check(t)
    \/ \E t \in Threads : T_concat(t)
    \/ \E t \in Threads : T_assign(t)
    \/ \E t \in Threads : T_sort(t)
    \/ \E t \in Threads : T_view(t)

\* ------------------------------------------------------------ UserManager

Users == {"u1", "7", "8"}
NumericIds == {"7", "8"}
Dates == {"2020-01-01", "2020-01-02"}
ConfigFiles == {"config.yaml"}
GivenFiles == ConfigFiles \cup {"missing.yaml"}
Faults == {"none", "build", "persist"}

NoUmCall == [op |-> "", user_id |-> "", exc |-> NoExc]

\* A store whose directories and manifest agree.
UmInit ==
    /\ dirs \in SUBSET Users
    /\ user_record \in [dirs -> Dates]
    /\ um_last = NoUmCall
    /\ aborted = FALSE

\* A variant of the manifest update that loses the new row.
record_unset(record, user_id, add_date) == record

\* pd.read_csv(users_file, index_col=0): the dtype pandas infers for the
\* index. user_record holds the file's text; a file whose ids all read as
\* numbers comes back with an integer index, which no str user_id matches.
read_csv_index(record) ==
    IF DOMAIN record # {} /\ DOMAIN record \subseteq NumericIds THEN "int64" ELSE "object"

\* user_record.drop([user_id]) raises KeyError for a label the index lacks.
drop_fails(record, user_id) ==
    user_id \notin DOMAIN record \/ read_csv_index(record) = "int64"

\* user_record.drop([user_id]) and to_csv
record_drop(record, user_id) == [u \in DOMAIN record \ {user_id} |-> record[u]]

\* user_record.loc[user_id] = [add_date] and to_csv. (A label the integer
\* index holds as a number is appended again; the file then has the id twice,
\* which this mapping shows once.)
record_set(record, user_id, add_date) ==
    [u \in DOMAIN record \cup {user_id} |-> IF u = user_id THEN add_date ELSE record[u]]

\* UserManager.add_user; fault names the collaborator that raises, if any:
\* "build" (yaml, model, strategy, account) or "persist" (save_instance,
\* save_account, read_csv).
add_user(user_id, config_file, add_date, fault) ==
    /\ UNCHANGED <<sdlVars, raceVars, qdlVars, dhVars>>
    /\ IF config_file \notin ConfigFiles
       THEN /\ um_last' = [op |-> "add", user_id |-> user_id,
                           exc |-> Raise("ValueError", "Cannot find config file")]
            /\ UNCHANGED <<dirs, user_record, aborted>>
       ELSE IF user_id \in dirs
       THEN /\ um_last' = [op |-> "add", user_id |-> user_id,
                           exc |-> Raise("ValueError", "User data already exists")]
            /\ UNCHANGED <<dirs, user_record, aborted>>
       ELSE IF fault = "build"
       THEN /\ um_last' = [op |-> "add", user_id |-> user_id,
                           exc |-> Raise("Exception", "build")]
            /\ UNCHANGED <<dirs, user_record, aborted>>
       ELSE IF fault = "persist"
       THEN /\ dirs' = dirs \cup {user_id}
            /\ um_last' = [op |-> "add", user_id |-> user_id,
                           exc |-> Raise("Exception", "persist")]
            /\ aborted' = TRUE
            /\ UNCHANGED user_record
       ELSE /\ dirs' = dirs \cup {user_id}
            /\ user_record' = record_set(user_record, user_id, add_date)
            /\ um_last' = [op |-> "add", user_id |-> user_id, exc |-> NoExc]
            /\ UNCHANGED aborted

\* UserManager.remove_user; fault "persist": read_csv or to_csv raises.
remove_user(user_id, fault) ==
    /\ UNCHANGED <<sdlVars, raceVars, qdlVars, dhVars>>
    /\ IF user_id \notin dirs
       THEN /\ um_last' = [op |-> "remove", user_id |-> user_id,
                           exc |-> Raise("ValueError", "Cannot find user data")]
            /\ UNCHANGED <<dirs, user_record, aborted>>
       ELSE IF fault = "persist"
       THEN /\ dirs' = dirs \ {user_id}
            /\ um_last' = [op |-> "remove", user_id |-> user_id,
                           exc |-> Raise("Exception", "persist")]
            /\ aborted' = TRUE
            /\ UNCHANGED user_record
       ELSE IF drop_fails(user_record, user_id)
       THEN /\ dirs' = dirs \ {user_id}
            /\ um_last' = [op |-> "remove", user_id |-> user_id,
                           exc |-> Raise("KeyError", "not found in axis")]
            /\ aborted' = TRUE
            /\ UNCHANGED user_record
       ELSE /\ dirs' = dirs \ {user_id}
            /\ user_record' = record_drop(user_record, user_id)
            /\ um_last' = [op |-> "remove", user_id |-> user_id, exc |-> NoExc]
            /\ UNCHANGED aborted

UmNext ==
    \/ \E u \in Users, f \in GivenFiles, d \in Dates, fault \in Faults : add_user(u, f, d, fault)
    \/ \E u \in Users, fault \in {"none", "persist"} : remove_user(u, fault)

\* ---------------------------------------------------------- specifications

\* The components a specification does not exercise stay as constructed.
StaticIdle ==
    /\ config = [g \in Groups |-> <<{}, "asc">>]
    /\ join = "outer"
    /\ __dict__ = [o \in Objs |-> IF o = "orig" THEN AttrNames ELSE {}]
    /\ _data = [o \in Objs |-> None]
    /\ reads = [o \in Objs |-> [g \in Groups |-> 0]]
    /\ ncalls = [o \in Objs |-> 0]
    /\ state = None
    /\ ret = [o \in Objs |-> NoRet]

DhIdle ==
    /\ is_group = FALSE
    /\ handlers = [h \in {"_"} |-> {}]
    /\ fetch_kwargs = [k \in {"col_set"} |-> CS_RAW]
    /\ last = NoCall
    /\ prev = NoCall

UmIdle ==
    /\ dirs = {}
    /\ user_record = <<>>
    /\ um_last = NoUmCall
    /\ aborted = FALSE

InitStatic == StaticInit /\ RaceInit /\ QdlInit /\ DhIdle /\ UmIdle
SpecStatic == InitStatic /\ [][StaticNext]_vars

InitRace == StaticInit /\ RaceInit /\ QdlInit /\ DhIdle /\ UmIdle
SpecRace == InitRace /\ [][RaceNext]_vars

InitQlib == StaticIdle /\ RaceInit /\ QdlInit /\ DhIdle /\ UmIdle
SpecQlib == InitQlib /\ [][QdlNext]_vars

InitDH == StaticIdle /\ RaceInit /\ QdlInit /\ DhInit /\ UmIdle
SpecDH == InitDH /\ [][DhNext]_vars

InitUM == StaticIdle /\ RaceInit /\ QdlInit /\ DhIdle /\ UmInit
SpecUM == InitUM /\ [][UmNext]_vars

\* ------------------------------------------------------------------ claims

\* C1: used sequentially, a StaticDataLoader has called the dataset reader
\* exactly once for every configured group once at least one load call was
\* made, however many calls follow and whatever their arguments; before the
\* first call it has read nothing.
C1_ReadOnce ==
    \A g \in Groups : reads["orig"][g] = (IF ncalls["orig"] >= 1 THEN 1 ELSE 0)

C1_Witness ==
    /\ ncalls["orig"] >= 2
    /\ ret["orig"].kind = "ok"
    /\ \A g \in Groups : reads["orig"][g] = 1

\* The table a freshly constructed loader with this config and join caches.
FreshData == sort_index(concat([g \in Groups |-> load_dataset(config[g])], join))

\* C2: the pickled state never holds the cache, and the first load call on
\* the restored instance succeeds, reads every source once and returns what
\* a fresh loader returns.
C2_RestoredLoads ==
    /\ (state # None => "_data" \notin state[1].keys /\ state[1]._data = None)
    /\ (ncalls["restored"] >= 1 =>
            /\ ret["restored"].kind = "ok"
            /\ \A g \in Groups : reads["restored"][g] = 1
            /\ ret["restored"].df = view(FreshData, ret["restored"].instruments,
                                         ret["restored"].start_time,
                                         ret["restored"].end_time))

\* C7: a load call returns exactly the rows of the cached table whose
\* instrument is among `instruments` (all when None) and whose time lies in
\* [start, end] (None open), in the cache's order; with all three None it
\* returns the cache; and a materialized cache never changes.
C7_Rows(o) ==
    SelectSeq(_data[o][1],
              LAMBDA row :
                  /\ (ret[o].instruments = None \/ row.idx[2] \in ret[o].instruments[1])
                  /\ (ret[o].start_time = None \/ row.idx[1] >= ret[o].start_time[1])
                  /\ (ret[o].end_time = None \/ row.idx[1] <= ret[o].end_time[1]))

C7_View ==
    \A o \in Objs :
        ret[o].kind = "ok" =>
            /\ _data[o] # None
            /\ ret[o].df = C7_Rows(o)
            /\ (ret[o].instruments = None /\ ret[o].start_time = None
                    /\ ret[o].end_time = None => ret[o].df = _data[o][1])

C7_CacheKept == \A o \in Objs : _data[o] # None => _data'[o] = _data[o]

C7_Slices == [](C7_View) /\ [][C7_CacheKept]_vars

C7_Witness ==
    /\ ret["orig"].kind = "ok"
    /\ ret["orig"].instruments # None
    /\ ret["orig"].start_time # None
    /\ ret["orig"].end_time # None
    /\ Len(ret["orig"].df) > 0
    /\ Len(ret["orig"].df) + 2 <= Len(_data["orig"][1])

\* The constructor was given a grouped config whose every fields_info parses.
GroupedAndParsed ==
    /\ given.called
    /\ given.config.kind = "dict"
    /\ DLWParser__init__(given.config).exc = NoExc

FreqLacksGroup ==
    /\ given.freq.kind = "dict"
    /\ \E g \in DOMAIN given.config.map : g \notin DOMAIN given.freq.map

\* C3: a grouped config with a freq mapping that lacks a group key fails in
\* the constructor with the missing-group ValueError: no loader exists and no
\* load call was made.
C3_MissingFreqAtConstruction ==
    (GroupedAndParsed /\ FreqLacksGroup) =>
        /\ raised = Raise("ValueError", "freq missing group")
        /\ ~loader.exists
        /\ qret.kind = "none"

C3_Witness ==
    /\ GroupedAndParsed /\ FreqLacksGroup
    /\ given.inst_processor.kind = "dict"
    /\ DOMAIN given.inst_processor.map # {}
    /\ raised.exc = "ValueError"

\* C4 as stated: every constructed loader holds, for its flat form and for
\* every group, a non-empty expression sequence and as many names.
C4_NonEmptyEqualLength ==
    loader.exists =>
        \A g \in DOMAIN loader.fields :
            /\ Len(loader.fields[g].exprs) > 0
            /\ Len(loader.fields[g].names) = Len(loader.fields[g].exprs)

GivenInfos ==
    IF given.config.kind = "dict"
    THEN {given.config.map[g] : g \in DOMAIN given.config.map}
    ELSE {given.config.flat}

\* The columns of the table the feature engine returned for a request.
C4_EngineColumns(request) ==
    D_features(request.instruments, request.exprs, request.start_time,
               request.end_time, request.freq).columns

\* C4 amended: every constructed loader was given fields_info values of
\* length > 0 (an empty sequence is rejected in the constructor); the number
\* of names is compared only when a load call renames the columns of the
\* engine's table, so a load call that returns has, for every group it
\* loaded, as many names as the engine's table has columns.
C4_Amended ==
    /\ loader.exists => \A fi \in GivenInfos : Len(fi.elems) > 0
    /\ qret.kind = "ok" =>
          /\ Len(engine_calls) = Len(group_calls)
          /\ \A k \in 1..Len(group_calls) :
                Len(group_calls[k].names) = Len(C4_EngineColumns(engine_calls[k]))

C4_Witness ==
    /\ loader.exists
    /\ \E g \in DOMAIN loader.fields :
          Len(loader.fields[g].names) # Len(loader.fields[g].exprs)
    /\ qret.kind = "raised"
    /\ qret.exc = Raise("ValueError", "Length mismatch")

FreqCoversGroups ==
    /\ given.freq.kind = "dict"
    /\ \A g \in DOMAIN given.config.map : g \in DOMAIN given.freq.map

\* C5 as stated: with a grouped config and a freq mapping covering every
\* group, construction succeeds whatever the inst_processor.
C5_ProcessorOptional == (GroupedAndParsed /\ FreqCoversGroups) => loader.exists

\* C5 amended: with a grouped config and a covering freq mapping construction
\* succeeds exactly when inst_processor is a non-empty mapping (it may lack
\* groups); with a flat config or a single freq token it succeeds with any
\* inst_processor; and a group absent from the map gets an empty processor
\* sequence in the request to the feature engine.
C5_Amended ==
    /\ (GroupedAndParsed /\ FreqCoversGroups) =>
          (loader.exists <=> (given.inst_processor.kind = "dict"
                                 /\ DOMAIN given.inst_processor.map # {}))
    /\ (given.called /\ DLWParser__init__(given.config).exc = NoExc
            /\ (given.config.kind = "flat" \/ given.freq.kind = "str")) => loader.exists
    /\ \A k \in 1..Len(engine_calls) :
          (group_calls[k].gp_name = None
              \/ group_calls[k].gp_name[1] \notin DOMAIN loader.inst_processor)
            => engine_calls[k].inst_processors = <<>>

C5_Witness ==
    /\ GroupedAndParsed /\ FreqCoversGroups
    /\ loader.exists
    /\ DOMAIN loader.fields = Groups
    /\ DOMAIN loader.inst_processor = {GroupOrder[1]}
    /\ qret.kind = "ok"
    /\ Len(engine_calls) = 2
    /\ engine_calls[1].inst_processors # <<>>
    /\ engine_calls[2].inst_processors = <<>>

\* C6: a load call that returns has, on a grouped loader, invoked
\* load_group_df exactly once per configured group with the group's
\* (exprs, names) and the caller's instruments/start/end; the result's outer
\* column level is the set of group names, each block is the group's
\* load_group_df result and the rows are the union of the blocks' rows. On a
\* flat loader it invoked load_group_df once and returns its result unlabelled.
C6_GroupCallOf(g) ==
    GroupCall(qret.instruments, loader.fields[g].exprs, loader.fields[g].names,
              qret.start_time, qret.end_time, IF g = "_" THEN None ELSE Some(g))

C6_PrimitiveOf(g) ==
    load_group_df(qret.instruments, loader.fields[g].exprs, loader.fields[g].names,
                  qret.start_time, qret.end_time, IF g = "_" THEN None ELSE Some(g)).df

C6_LoadDispatch ==
    qret.kind = "ok" =>
        IF loader.is_group
        THEN /\ Len(group_calls) = Cardinality(DOMAIN loader.fields)
             /\ \A g \in DOMAIN loader.fields :
                   Cardinality({k \in 1..Len(group_calls) :
                                   group_calls[k] = C6_GroupCallOf(g)}) = 1
             /\ qret.labelled
             /\ qret.outer = DOMAIN loader.fields
             /\ {qret.blocks[k].grp : k \in 1..Len(qret.blocks)} = DOMAIN loader.fields
             /\ \A k \in 1..Len(qret.blocks) :
                   qret.blocks[k].df = C6_PrimitiveOf(qret.blocks[k].grp)
             /\ qret.index =
                   UNION {Range(qret.blocks[k].df.index) : k \in 1..Len(qret.blocks)}
        ELSE /\ group_calls = <<C6_GroupCallOf("_")>>
             /\ ~qret.labelled
             /\ qret.outer = {}
             /\ qret.df = C6_PrimitiveOf("_")

C6_Witness ==
    /\ qret.kind = "ok"
    /\ loader.is_group
    /\ DOMAIN loader.fields = Groups
    /\ Len(qret.blocks) = 2
    /\ Range(qret.blocks[1].df.index) # Range(qret.blocks[2].df.index)
    /\ Range(qret.blocks[2].df.index) # {}
    /\ qret.instruments.kind = "list"

\* C8: DataLoaderDH.load never honours `instruments`: every handler gets the
\* request (slice(start, end), level "datetime", the configured col_set); two
\* calls with the same start and end give the same requests and the same
\* tables whatever their instruments; a diagnostic is emitted exactly when
\* instruments is not None; and without groups the handler's fetch result is
\* returned as it is.
C8_InstrumentsIgnored ==
    last.called =>
        /\ \A h \in DOMAIN handlers :
              last.requests[h] = [selector |-> <<last.start_time, last.end_time>>,
                                  level |-> "datetime",
                                  col_set |-> fetch_kwargs["col_set"]]
        /\ Len(last.warnings) = (IF last.instruments.kind = "none" THEN 0 ELSE 1)
        /\ (~is_group =>
              /\ ~last.ret.labelled
              /\ last.ret.blocks["_"] = DataHandler_fetch(handlers["_"], last.requests["_"]))
        /\ (is_group => last.ret.labelled /\ DOMAIN last.ret.blocks = Groups)
        /\ (prev.called /\ prev.start_time = last.start_time
                /\ prev.end_time = last.end_time) =>
              (prev.requests = last.requests /\ prev.ret = last.ret)

C8_Witness ==
    /\ prev.called /\ last.called
    /\ prev.instruments.kind = "none"
    /\ last.instruments.kind = "list"
    /\ prev.start_time = last.start_time /\ prev.end_time = last.end_time
    /\ last.start_time # None
    /\ ~is_group
    /\ \E k \in 1..Len(last.ret.blocks["_"].index) : last.ret.blocks["_"].index[k][2] = 2

\* C9: with two threads a source is read more than once only when a thread
\* tested the cache while another was materializing it (and never more often
\* than there are threads); that interleaving is reachable.
C9_RaceOnFirstLoad ==
    \A g \in Groups :
        /\ reads["orig"][g] <= Cardinality(Threads)
        /\ (reads["orig"][g] > 1 => overlap)

C9_Witness ==
    /\ \A t \in Threads : pc[t] = "done"
    /\ \A g \in Groups : reads["orig"][g] = 2
    /\ overlap

\* C10: while every add_user and remove_user call has run to completion the
\* user directories and the manifest's user ids are the same set; a
\* successful add leaves the user in both, a successful remove in neither,
\* and a call refused for a missing config file, an existing user or an
\* unknown user changes neither.
C10_DirsMatchManifest == ~aborted => dirs = DOMAIN user_record

C10_Refusals ==
    {"Cannot find config file", "User data already exists", "Cannot find user data"}

C10_Call ==
    /\ um_last'.exc.msg \in C10_Refusals => UNCHANGED <<dirs, user_record>>
    /\ (um_last'.exc = NoExc /\ um_last'.op = "add") =>
          (um_last'.user_id \in dirs' /\ um_last'.user_id \in DOMAIN user_record')
    /\ (um_last'.exc = NoExc /\ um_last'.op = "remove") =>
          (um_last'.user_id \notin dirs' /\ um_last'.user_id \notin DOMAIN user_record')

====
